---- MODULE Spec2Model ----
(***************************************************************************)
(* The Electron launcher of src/main.js (lines 1-455): one BrowserWindow,  *)
(* one supervised Streamlit subprocess, the readiness probe that polls     *)
(* http://localhost:8501 from a setInterval, and the close/quit handlers   *)
(* that stop the subprocess.  SetupSpec runs startStreamlit alone, on every *)
(* host, in both versions the repository holds: src/main.js and the older  *)
(* src/unnamed/part_000.                                                   *)
(*                                                                         *)
(* Every JavaScript callback is one atomic action (the event loop runs one *)
(* callback to completion).  Timers, HTTP completions, subprocess events   *)
(* and user events interleave freely: the model is untimed.                *)
(*                                                                         *)
(* Library behaviour the handlers rely on (Node.js / Electron):            *)
(*  - ChildProcess.kill(sig) delivers sig and sets .killed only while the  *)
(*    child has not been observed to exit; afterwards it returns false,    *)
(*    sends nothing and does not throw.                                    *)
(*  - a failed spawn emits 'error' and then 'close' with a negative code.  *)
(*  - req.destroy() from the 'timeout' handler makes the request emit      *)
(*    'error' (socket hang up) afterwards.                                 *)
(*  - calling a method on a null mainWindow throws a TypeError, which the  *)
(*    uncaughtException handler (main.js:66) logs; the app goes on.        *)
(***************************************************************************)
EXTENDS Integers, Sequences, FiniteSets, TLC

\* main.js:101  const maxAttempts = 30;
maxAttempts == 30

\* main.js:113  timeout: 2000  (option of http.request, in ms)
requestTimeout == 2000

\* main.js:145  }, 2000);  (period of setInterval, in ms)
pollInterval == 2000

\* The attempts counter is unbounded in the code (the interval is never
\* cleared on non-200 responses); it saturates here: MaxTicks reads
\* "MaxTicks or more".  MaxTicks > maxAttempts keeps every comparison exact.
MaxTicks == 32

\* Requests of one launch that can be outstanding at the same time.
MaxInFlight == 2

\* createWindow invocations (app.whenReady, then 'activate' on macOS).
MaxLaunches == 2

\* SpecRelaunch follows each launch's probe for this many interval ticks.
MaxEarlyTicks == 1

Launches == 1..MaxLaunches

\* HTTP status codes the server can answer with: success and one non-success.
StatusCodes == {200, 503}

\* Exit codes of the 'close' event (main.js:408): clean, crash, killed by a
\* signal (code null), failed spawn (negative errno).
ExitStates == {"exit0", "exit1", "exitnull", "exitneg"}

VARIABLES
  platform,          \* process.platform: "darwin" or "other" (main.js:439)
  app,               \* "running" | "beforeQuit" | "closing" | "quit"
  wacPending,        \* 'window-all-closed' is about to be emitted
  mainWindow,        \* main.js:9   0 = null/undefined, else the window of launch l
  streamlitProcess,  \* main.js:10  0 = undefined, else the process of launch l
  nLaunch,           \* number of createWindow calls so far
  setup,             \* per launch: outcome of startStreamlit
  attempts,          \* per launch: main.js:102  let attempts = 0
  interval,          \* per launch: checkStreamlit is still scheduled
  pending,           \* per launch: requests issued, no event delivered yet
  destroyed,         \* per launch: requests destroyed by 'timeout', 'error' to come
  succeeded,         \* per launch: requests whose response had status 200
  pstate,            \* per process: "none" | "running" | "spawnerr" | "errclose" | exit state
  killed,            \* per process: ChildProcess.killed
  sigterm,           \* per process: SIGTERM signals delivered
  sigkill,           \* per process: SIGKILL signals delivered
  killTimer,         \* per launch: 5000 ms timer of the 'closed' handler
  errorTimers,       \* pending setTimeout(() => showErrorScreen(), 1000)
  loading,           \* per window: loading views shown
  ready,             \* per window: loads of http://localhost:8501
  errors,            \* per window: error views shown
  thrown,            \* exceptions raised so far: "window" (null mainWindow), "stop"
  host,              \* SetupSpec: the host one startStreamlit call runs on
  run                \* SetupSpec: what that call did

setupVars == <<host, run>>

vars == <<setupVars, platform, app, wacPending, mainWindow, streamlitProcess, nLaunch,
          setup, attempts, interval, pending, destroyed, succeeded,
          pstate, killed, sigterm, sigkill, killTimer, errorTimers,
          loading, ready, errors, thrown>>

probeVars == <<attempts, interval, pending, destroyed, succeeded>>
procVars == <<pstate, killed, sigterm, sigkill>>
uiVars == <<loading, ready, errors, thrown>>
appVars == <<platform, app, wacPending>>

Min(a, b) == IF a < b THEN a ELSE b

----------------------------------------------------------------------------
(* startStreamlit, main.js:289-423 *)

\* main.js:318-320
PythonCommands(isDev) ==
  IF isDev THEN <<"python", "python3", "py">>
  ELSE <<"/opt/anaconda3/bin/python", "/opt/anaconda3/bin/python3",
         "python", "python3", "py">>

\* main.js:322-339: the first command whose `--version` run succeeds, or "null".
RECURSIVE FirstWorking(_, _)
FirstWorking(cmds, ok) ==
  IF cmds = <<>> THEN "null"
  ELSE IF Head(cmds) \in ok THEN Head(cmds)
  ELSE FirstWorking(Tail(cmds), ok)

\* What the host looks like when startStreamlit runs.
Environments ==
  [dir: BOOLEAN,        \* <resources>/streamlit_app exists     (main.js:43)
   file: BOOLEAN,       \* lumina_app.py exists                  (main.js:305)
   isDev: BOOLEAN,      \* main.js:12
   ok: {{}, {"python3"}, {"py"}, {"/opt/anaconda3/bin/python", "python"}},
   module: BOOLEAN,     \* `-m streamlit --version` succeeds     (main.js:348)
   spawnOK: BOOLEAN]    \* the OS could create the process       (main.js:387)

\* startStreamlit without the check of main.js:305-307.
StartResultNoFileCheck(env) ==
  IF ~env.dir THEN "no_dir"
  ELSE IF FirstWorking(PythonCommands(env.isDev), env.ok) = "null"
       THEN "no_python"
  ELSE IF ~env.module THEN "no_module"
  ELSE "spawned"

\* The outcome of the try block of startStreamlit: the throw that ends it,
\* or "spawned" when spawn() was called.
StartResult(env) ==
  IF ~env.dir THEN "no_dir"                                       \* main.js:62
  ELSE IF ~env.file THEN "no_file"                                \* main.js:306
  ELSE IF FirstWorking(PythonCommands(env.isDev), env.ok) = "null"
       THEN "no_python"                                           \* main.js:342
  ELSE IF ~env.module THEN "no_module"                            \* main.js:355
  ELSE "spawned"                                                  \* main.js:387

----------------------------------------------------------------------------
(* startStreamlit on its own: what one call checks, probes, reports and   *)
(* spawns.  src/main.js:289-423 and src/unnamed/part_000:299-408.          *)

\* The two versions of the launcher in the repository.
Variants == {"main.js", "part_000"}

\* The directories an entry file is looked for under: process.resourcesPath,
\* app.getAppPath() and __dirname (part_000:310-312, main.js:25-34).
Roots == {"resources", "appPath", "dirname"}

\* What a root holds: nothing, the streamlit_app directory without
\* lumina_app.py, or the directory with the entry file.
FsStates == {"none", "dir", "file"}

\* Every interpreter command either version probes (main.js:318-320,
\* part_000:347).
Commands == {"/opt/anaconda3/bin/python", "/opt/anaconda3/bin/python3",
             "python", "python3", "py"}

Hosts ==
  [variant: Variants,
   isDev: BOOLEAN,           \* main.js:12, part_000:12
   fs: [Roots -> FsStates],
   ok: SUBSET Commands,      \* commands whose `--version` run succeeds
   module: BOOLEAN,          \* `-m streamlit --version` succeeds
   data: BOOLEAN,            \* the data directory next to the entry file exists
   mkdirOK: BOOLEAN]         \* fs.mkdirSync of that directory would succeed

\* Outside SetupSpec no host is drawn and no isolated call is made.
NoHost == [variant |-> "none"]
NoRun == [pc |-> "idle"]

\* fs.existsSync(path); a path is <<root, kind>>, the empty path is <<"", "">>.
Exists(fs, path) ==
  /\ path[1] \in Roots
  /\ \/ path[2] = "dir" /\ fs[path[1]] # "none"
     \/ path[2] = "file" /\ fs[path[1]] = "file"

\* A detection loop without its break: every command is probed.
ProbedAll(cmds, ok) == cmds

\* The commands the detection loop runs `--version` on: it stops at the first
\* success (break, main.js:334, part_000:356).
RECURSIVE Probed(_, _)
Probed(cmds, ok) ==
  IF cmds = <<>> THEN <<>>
  ELSE IF Head(cmds) \in ok THEN <<Head(cmds)>>
  ELSE <<Head(cmds)>> \o Probed(Tail(cmds), ok)

\* main.js:25-34  getResourcePath()
getResourcePath(isDev) == IF isDev THEN "dirname" ELSE "resources"

\* main.js:36-38: the one place main.js looks for the application.
MainCandidates(isDev) == <<getResourcePath(isDev)>>

\* The host as startStreamlit of main.js sees it.
EnvOf(h) ==
  [dir |-> h.fs[getResourcePath(h.isDev)] # "none",
   file |-> h.fs[getResourcePath(h.isDev)] = "file",
   isDev |-> h.isDev, ok |-> h.ok, module |-> h.module, spawnOK |-> TRUE]

\* main.js:289-423: one call of startStreamlit, with everything it did.
MainStart(h) ==
  LET root == getResourcePath(h.isDev)
      res == StartResult(EnvOf(h))
      notFound == res \in {"no_dir", "no_file"}
      dirChecks == <<<<root, "dir">>, <<root, "dir">>>>   \* main.js:41, 43
      cmds == PythonCommands(h.isDev)
  IN [pc |-> "done",
      result |-> res,
      path |-> IF res = "no_dir" THEN "undefined" ELSE root,
      checked |-> IF res = "no_dir" THEN dirChecks
                  ELSE IF res = "no_file"
                       THEN dirChecks \o <<<<root, "file">>>>   \* main.js:305
                  ELSE dirChecks \o <<<<root, "file">>,
                                      <<root, "data">>, <<root, "data">>>>,
      tried |-> IF notFound THEN <<root>> ELSE <<>>,      \* main.js:62, 306
      probed |-> IF notFound THEN <<>> ELSE Probed(cmds, h.ok),
      pythonCmd |-> IF notFound THEN "null" ELSE FirstWorking(cmds, h.ok),
      moduleChecks |-> IF res \in {"no_module", "spawned"} THEN 1 ELSE 0,
      mkdirs |-> 0,                                       \* main.js:309-315
      dataDir |-> h.data,
      spawns |-> IF res = "spawned" THEN 1 ELSE 0,        \* main.js:387
      errorTimers |-> IF res = "spawned" THEN 0 ELSE 1]   \* main.js:421

\* part_000:305, 309-313: the candidate entry files, in order.
PossiblePaths(isDev) ==
  IF isDev THEN <<"dirname">> ELSE <<"resources", "appPath", "dirname">>

\* Array.prototype.filter in place of find: the callback runs on every entry.
FindCheckedAll(paths, fs) == [i \in DOMAIN paths |-> <<paths[i], "file">>]

\* Array.prototype.find over the candidates (part_000:315): the callback runs
\* on each entry in order until it returns true.
RECURSIVE FindChecked(_, _)
FindChecked(paths, fs) ==
  IF paths = <<>> THEN <<>>
  ELSE IF Exists(fs, <<Head(paths), "file">>) THEN <<<<Head(paths), "file">>>>
  ELSE <<<<Head(paths), "file">>>> \o FindChecked(Tail(paths), fs)

\* part_000:315: the entry find returns, "undefined" when none passes.
RECURSIVE FindFirst(_, _)
FindFirst(paths, fs) ==
  IF paths = <<>> THEN "undefined"
  ELSE IF Exists(fs, <<Head(paths), "file">>) THEN Head(paths)
  ELSE FindFirst(Tail(paths), fs)

\* A report that names the last candidate only.
TriedLastOnly(isDev) == <<"dirname">>

\* part_000:328-332: the list printed after 'Tried paths:'.
TriedPaths(isDev) ==
  IF isDev THEN <<"dirname">> ELSE <<"resources", "appPath", "dirname">>

\* part_000:347
OldPythonCommands == <<"python3", "python">>

\* part_000:299-408: one call of startStreamlit, with everything it did.
OldStart(h) ==
  LET found == IF h.isDev THEN "dirname"                       \* part_000:305
               ELSE FindFirst(PossiblePaths(FALSE), h.fs)      \* part_000:315
      findChecks == IF h.isDev THEN <<>>
                    ELSE FindChecked(PossiblePaths(FALSE), h.fs)
      logCheck == IF found = "undefined" THEN <<<<"", "">>>>   \* part_000:324
                  ELSE <<<<found, "file">>>>
      ifCheck == IF found = "undefined" THEN <<>>              \* part_000:326
                 ELSE <<<<found, "file">>>>
      notFound == found = "undefined" \/ ~Exists(h.fs, <<found, "file">>)
      cmd == FirstWorking(OldPythonCommands, h.ok)
  IN [pc |-> "done",
      result |-> IF notFound THEN "no_file"
                 ELSE IF cmd = "null" THEN "no_python" ELSE "spawned",
      path |-> found,
      checked |-> findChecks \o logCheck \o ifCheck \o
                  (IF notFound THEN <<>> ELSE <<<<found, "data">>>>),
      tried |-> IF notFound THEN TriedPaths(h.isDev) ELSE <<>>,
      probed |-> IF notFound THEN <<>> ELSE Probed(OldPythonCommands, h.ok),
      pythonCmd |-> IF notFound THEN "null" ELSE cmd,
      moduleChecks |-> 0,
      mkdirs |-> IF ~notFound /\ ~h.data THEN 1 ELSE 0,        \* part_000:337-339
      dataDir |-> IF notFound THEN h.data
                  ELSE h.data \/ h.mkdirOK,                    \* part_000:341
      spawns |-> IF ~notFound /\ cmd # "null" THEN 1 ELSE 0,   \* part_000:380
      errorTimers |-> 0]

----------------------------------------------------------------------------
(* The path search of the debug script, main.js:525-564.  The script runs  *)
(* under plain Node as well, where process.resourcesPath is not set.        *)

\* process.resourcesPath: a directory, the empty string, or undefined.
ResourcesValues == {"set", "empty", "undefined"}

\* main.js:525-530: the four paths built, by position.
DebugPositions == 1..4

DebugHosts ==
  [variant: {"debug.js"},
   resourcesPath: ResourcesValues,
   present: SUBSET DebugPositions]   \* the built paths that exist

\* main.js:528-529: `process.resourcesPath || ''`; "" is the empty root.
OrEmpty(v) == IF v = "set" THEN "resources" ELSE ""

\* main.js:525-530: each path is <<root, rest>>.
streamlitPaths(h) ==
  << <<"dirname", "streamlit_app">>,
     <<"cwd", "streamlit_app">>,
     <<OrEmpty(h.resourcesPath), "streamlit_app">>,
     <<OrEmpty(h.resourcesPath), "extraResources/streamlit_app">> >>

\* path.join(root, rest) is the empty string only if both parts are empty;
\* `testPath &&` (main.js:535) lets every non-empty path through.
Truthy(path) == ~(path[1] = "" /\ path[2] = "")

\* main.js:534-564: the forEach over streamlitPaths.
DebugStart(h) ==
  LET paths == streamlitPaths(h)
      found == {i \in DebugPositions : Truthy(paths[i]) /\ i \in h.present}
  IN [pc |-> "listed",
      checked |-> SelectSeq(paths, Truthy),               \* main.js:535
      path |-> IF found = {} THEN "null"                  \* main.js:538-540
               ELSE paths[CHOOSE i \in found : \A j \in found : i <= j]]

\* The candidate entry files of a host's version, in the order they are tried.
Candidates(h) ==
  IF h.variant = "main.js" THEN MainCandidates(h.isDev)
  ELSE PossiblePaths(h.isDev)

\* The interpreter commands of a host's version, in the order they are probed.
CommandsOf(h) ==
  IF h.variant = "main.js" THEN PythonCommands(h.isDev)
  ELSE OldPythonCommands

\* Some candidate entry file exists on the host.
EntryFound(h) ==
  \E i \in DOMAIN Candidates(h) : Exists(h.fs, <<Candidates(h)[i], "file">>)

\* Some candidate interpreter answers `--version` on the host.
InterpreterFound(h) ==
  \E i \in DOMAIN CommandsOf(h) : CommandsOf(h)[i] \in h.ok

\* The position of the first existing candidate in list order, 0 when none
\* exists.
FirstExisting(h) ==
  LET I == {i \in DOMAIN Candidates(h) :
              Exists(h.fs, <<Candidates(h)[i], "file">>)}
  IN IF I = {} THEN 0 ELSE CHOOSE i \in I : \A j \in I : i <= j

----------------------------------------------------------------------------
(* UI operations on the global mainWindow *)

\* mainWindow.loadURL(...) on window w: counted in `c` unless w is null.
Shown(c, w) == IF w = 0 THEN c ELSE [c EXCEPT ![w] = @ + 1]

\* The TypeError of dereferencing a null mainWindow.
Deref(t, w) == IF w = 0 THEN t \cup {"window"} ELSE t

\* A createWindow that shows no loading view.
NoLoadingScreen(c, w) == c

\* showLoadingScreen(), main.js:168-219: loadURL and show on the new window.
showLoadingScreen(c, w) == Shown(c, w)

\* showErrorScreen(), main.js:221-287
showErrorScreen ==
  /\ errors' = Shown(errors, mainWindow)
  /\ thrown' = Deref(thrown, mainWindow)

----------------------------------------------------------------------------
(* createWindow, main.js:74-166 *)

createWindow(l, env) ==
  /\ app = "running"
  /\ mainWindow = 0
  /\ ~wacPending
  /\ nLaunch = l - 1
  /\ nLaunch' = l
  /\ mainWindow' = l                                   \* main.js:75
  /\ loading' = showLoadingScreen(loading, l)         \* main.js:95
  /\ setup' = [setup EXCEPT ![l] = StartResult(env)]   \* main.js:98
  /\ IF StartResult(env) = "spawned"
     THEN /\ streamlitProcess' = l                     \* main.js:387
          /\ pstate' = [pstate EXCEPT ![l] = IF env.spawnOK THEN "running"
                                                           ELSE "spawnerr"]
          /\ UNCHANGED errorTimers
     ELSE /\ errorTimers' = errorTimers + 1            \* main.js:421
          /\ UNCHANGED <<streamlitProcess, pstate>>
  /\ interval' = [interval EXCEPT ![l] = TRUE]         \* main.js:104
  /\ UNCHANGED <<setupVars, appVars, attempts, pending, destroyed, succeeded,
                 killed, sigterm, sigkill, killTimer, ready, errors, thrown>>

\* main.js:425-432  app.whenReady().then(... createWindow())
AppReady == \E env \in Environments : createWindow(1, env)

----------------------------------------------------------------------------
(* the readiness probe, main.js:100-145 *)

\* Requests of one launch that can be outstanding together: a request is
\* over within requestTimeout of being issued, so a timeout shorter than the
\* period leaves none for the next tick to overlap with.
InFlightLimit == IF requestTimeout < pollInterval THEN 1 ELSE MaxInFlight

\* main.js:104-108, 144: the interval callback issues one GET.
Tick(l) ==
  /\ app # "quit"
  /\ interval[l]
  /\ pending[l] + destroyed[l] < InFlightLimit
  /\ attempts' = [attempts EXCEPT ![l] = Min(@ + 1, MaxTicks)]
  /\ pending' = [pending EXCEPT ![l] = @ + 1]
  /\ UNCHANGED <<setupVars, appVars, mainWindow, streamlitProcess, nLaunch, setup,
                 interval, destroyed, succeeded, procVars, killTimer,
                 errorTimers, uiVars>>

\* The response callback without its clearInterval.
IntervalNeverCleared(status, active) == active

\* main.js:116-117: clearInterval only on status 200.
IntervalAfterResponse(status, active) ==
  IF status = 200 THEN FALSE ELSE active

\* main.js:114-122: the response callback.
Response(l, status) ==
  /\ app # "quit"
  /\ pending[l] > 0
  /\ pending' = [pending EXCEPT ![l] = @ - 1]
  /\ interval' = [interval EXCEPT ![l] = IntervalAfterResponse(status, @)]
  /\ IF status = 200
     THEN /\ succeeded' = [succeeded EXCEPT ![l] = @ + 1]
          /\ ready' = Shown(ready, mainWindow)          \* main.js:119
          /\ thrown' = Deref(thrown, mainWindow)
     ELSE UNCHANGED <<succeeded, ready, thrown>>
  /\ UNCHANGED <<setupVars, appVars, mainWindow, streamlitProcess, nLaunch, setup,
                 attempts, destroyed, procVars, killTimer, errorTimers,
                 loading, errors>>

\* main.js:127-131 and 138-141: the tail shared by the 'error' and the
\* 'timeout' handler.
ProbeFailure(l) ==
  IF attempts[l] >= maxAttempts
  THEN /\ interval' = [interval EXCEPT ![l] = FALSE]
       /\ showErrorScreen
  ELSE UNCHANGED <<interval, errors, thrown>>

\* main.js:124-132: 'error' of a request that was still pending.
ReqError(l) ==
  /\ app # "quit"
  /\ pending[l] > 0
  /\ pending' = [pending EXCEPT ![l] = @ - 1]
  /\ ProbeFailure(l)
  /\ UNCHANGED <<setupVars, appVars, mainWindow, streamlitProcess, nLaunch, setup,
                 attempts, destroyed, succeeded, procVars, killTimer,
                 errorTimers, loading, ready>>

\* main.js:134-142: 'timeout'; req.destroy() runs before the check.
ReqTimeout(l) ==
  /\ app # "quit"
  /\ pending[l] > 0
  /\ pending' = [pending EXCEPT ![l] = @ - 1]
  /\ destroyed' = [destroyed EXCEPT ![l] = @ + 1]
  /\ ProbeFailure(l)
  /\ UNCHANGED <<setupVars, appVars, mainWindow, streamlitProcess, nLaunch, setup,
                 attempts, succeeded, procVars, killTimer,
                 errorTimers, loading, ready>>

\* main.js:124-132: 'error' of a request destroyed by its 'timeout' handler.
ReqDestroyedError(l) ==
  /\ app # "quit"
  /\ destroyed[l] > 0
  /\ destroyed' = [destroyed EXCEPT ![l] = @ - 1]
  /\ ProbeFailure(l)
  /\ UNCHANGED <<setupVars, appVars, mainWindow, streamlitProcess, nLaunch, setup,
                 attempts, pending, succeeded, procVars, killTimer,
                 errorTimers, loading, ready>>

----------------------------------------------------------------------------
(* the subprocess, main.js:387-414, and ChildProcess.kill *)

\* A stop handler without its guard.
StopUnguarded(sp) == TRUE

\* main.js:154, 435, 452: `if (streamlitProcess)`.
HasProcess(sp) == sp # 0

\* ChildProcess.kill(sig) on handle p: the signal is delivered only while the
\* child has not been observed to exit.
Delivered(p) == p # 0 /\ pstate[p] = "running"

\* `if (streamlitProcess) streamlitProcess.kill('SIGTERM')`
\* main.js:154-156, 435-437, 452-453.
StopProcess ==
  /\ sigterm' = IF HasProcess(streamlitProcess) /\ Delivered(streamlitProcess)
                THEN [sigterm EXCEPT ![streamlitProcess] = @ + 1] ELSE sigterm
  /\ killed' = IF HasProcess(streamlitProcess) /\ Delivered(streamlitProcess)
               THEN [killed EXCEPT ![streamlitProcess] = TRUE] ELSE killed
  /\ thrown' = IF HasProcess(streamlitProcess) /\ streamlitProcess = 0
               THEN thrown \cup {"stop"} ELSE thrown

\* A 'data' handler that takes the output as the sign that the server is up.
ProcOutputParsed(p) ==
  /\ app # "quit"
  /\ pstate[p] = "running"
  /\ ready' = Shown(ready, mainWindow)
  /\ UNCHANGED <<setupVars, appVars, mainWindow, streamlitProcess, nLaunch,
                 setup, probeVars, procVars, killTimer, errorTimers,
                 loading, errors, thrown>>

\* main.js:393-401: stdout/stderr 'data' only logs.
ProcOutput(p) ==
  /\ app # "quit"
  /\ pstate[p] = "running"
  /\ UNCHANGED vars

\* main.js:403-406: 'error' of a failed spawn.
ProcError(p) ==
  /\ app # "quit"
  /\ pstate[p] = "spawnerr"
  /\ pstate' = [pstate EXCEPT ![p] = "errclose"]
  /\ errorTimers' = errorTimers + 1
  /\ UNCHANGED <<setupVars, appVars, mainWindow, streamlitProcess, nLaunch, setup,
                 probeVars, killed, sigterm, sigkill, killTimer, uiVars>>

\* main.js:410: `code !== 0 && code !== null`.
IsCrash(exit) == exit \notin {"exit0", "exitnull"}

\* A 'close' handler that starts the subprocess again after a crash.
RestartOnCrash(p, exit) == IF IsCrash(exit) THEN "running" ELSE exit

\* main.js:408-414: the handle after 'close': ended, never started again.
AfterClose(p, exit) == exit

\* main.js:408-414: 'close'.  A running child ends with code 0, a non-zero
\* code, or null (ended by a signal); a failed spawn closes with its errno.
ProcClose(p, exit) ==
  /\ app # "quit"
  /\ \/ pstate[p] = "running" /\ exit \in {"exit0", "exit1", "exitnull"}
     \/ pstate[p] = "errclose" /\ exit = "exitneg"
  /\ pstate' = [pstate EXCEPT ![p] = AfterClose(p, exit)]
  /\ errorTimers' = IF IsCrash(exit) THEN errorTimers + 1 ELSE errorTimers
  /\ UNCHANGED <<setupVars, appVars, mainWindow, streamlitProcess, nLaunch, setup,
                 probeVars, killed, sigterm, sigkill, killTimer, uiVars>>

\* main.js:405, 412, 421: a delayed showErrorScreen fires.
ErrorTimerFires ==
  /\ app # "quit"
  /\ errorTimers > 0
  /\ errorTimers' = errorTimers - 1
  /\ showErrorScreen
  /\ UNCHANGED <<setupVars, appVars, mainWindow, streamlitProcess, nLaunch, setup,
                 probeVars, procVars, killTimer, loading, ready>>

----------------------------------------------------------------------------
(* window and application events, main.js:152-163 and 434-455 *)

\* main.js:152-163: 'closed' of the window of launch w (closed by the user,
\* or by the application while it quits).
WindowClosed(w) ==
  /\ app \in {"running", "closing"}
  /\ w # 0
  /\ mainWindow = w
  /\ mainWindow' = 0
  /\ StopProcess
  /\ killTimer' = IF HasProcess(streamlitProcess)
                  THEN [killTimer EXCEPT ![w] = "armed"] ELSE killTimer
  /\ wacPending' = (app = "running")
  /\ UNCHANGED <<setupVars, platform, app, streamlitProcess, nLaunch, setup, probeVars,
                 pstate, sigkill, errorTimers, loading, ready, errors>>

\* main.js:157-161: the timer of the 'closed' handler of window w fires.  It
\* fires 5000 ms after 'closed': after 'window-all-closed', which is emitted at
\* once, and only if the application has not quit in the meantime.
KillTimerFires(w) ==
  /\ app = "running"
  /\ ~wacPending
  /\ killTimer[w] = "armed"
  /\ killTimer' = [killTimer EXCEPT ![w] = "fired"]
  /\ IF streamlitProcess # 0 /\ ~killed[streamlitProcess]
        /\ Delivered(streamlitProcess)
     THEN /\ sigkill' = [sigkill EXCEPT ![streamlitProcess] = @ + 1]
          /\ killed' = [killed EXCEPT ![streamlitProcess] = TRUE]
     ELSE UNCHANGED <<sigkill, killed>>
  /\ UNCHANGED <<setupVars, appVars, mainWindow, streamlitProcess, nLaunch, setup,
                 probeVars, pstate, sigterm, errorTimers, uiVars>>

\* main.js:434-442: 'window-all-closed'; app.quit() off macOS.
WindowAllClosed ==
  /\ app = "running"
  /\ wacPending
  /\ wacPending' = FALSE
  /\ StopProcess
  /\ app' = IF platform # "darwin" THEN "beforeQuit" ELSE app
  /\ UNCHANGED <<setupVars, platform, mainWindow, streamlitProcess, nLaunch, setup,
                 probeVars, pstate, sigkill, killTimer, errorTimers,
                 loading, ready, errors>>

\* The user quits the application (menu, Cmd+Q).
UserQuit ==
  /\ app = "running"
  /\ ~wacPending
  /\ nLaunch > 0
  /\ app' = "beforeQuit"
  /\ UNCHANGED <<setupVars, platform, wacPending, mainWindow, streamlitProcess, nLaunch,
                 setup, probeVars, procVars, killTimer, errorTimers, uiVars>>

\* main.js:450-455: 'before-quit'; the windows are closed afterwards.
BeforeQuit ==
  /\ app = "beforeQuit"
  /\ StopProcess
  /\ app' = "closing"
  /\ UNCHANGED <<setupVars, platform, wacPending, mainWindow, streamlitProcess, nLaunch,
                 setup, probeVars, pstate, sigkill, killTimer, errorTimers,
                 loading, ready, errors>>

\* All windows are closed after 'before-quit': the application terminates,
\* and with it every timer and pending callback.
AppExit ==
  /\ app = "closing"
  /\ mainWindow = 0
  /\ app' = "quit"
  /\ UNCHANGED <<setupVars, platform, wacPending, mainWindow, streamlitProcess, nLaunch,
                 setup, probeVars, procVars, killTimer, errorTimers, uiVars>>

\* main.js:444-448: 'activate' (macOS) with no window open.
Activate ==
  /\ platform = "darwin"
  /\ nLaunch >= 1
  /\ \E l \in Launches, env \in Environments : createWindow(l, env)

----------------------------------------------------------------------------

\* The launcher before app.whenReady resolves.
AppInit ==
  /\ platform \in {"darwin", "other"}
  /\ app = "running"
  /\ wacPending = FALSE
  /\ mainWindow = 0
  /\ streamlitProcess = 0
  /\ nLaunch = 0
  /\ setup = [l \in Launches |-> "none"]
  /\ attempts = [l \in Launches |-> 0]
  /\ interval = [l \in Launches |-> FALSE]
  /\ pending = [l \in Launches |-> 0]
  /\ destroyed = [l \in Launches |-> 0]
  /\ succeeded = [l \in Launches |-> 0]
  /\ pstate = [l \in Launches |-> "none"]
  /\ killed = [l \in Launches |-> FALSE]
  /\ sigterm = [l \in Launches |-> 0]
  /\ sigkill = [l \in Launches |-> 0]
  /\ killTimer = [l \in Launches |-> "unset"]
  /\ errorTimers = 0
  /\ loading = [l \in Launches |-> 0]
  /\ ready = [l \in Launches |-> 0]
  /\ errors = [l \in Launches |-> 0]
  /\ thrown = {}

Init ==
  /\ AppInit
  /\ host = NoHost
  /\ run = NoRun

Next ==
  \/ AppReady
  \/ \E l \in Launches : Tick(l)
  \/ \E l \in Launches, s \in StatusCodes : Response(l, s)
  \/ \E l \in Launches : ReqError(l)
  \/ \E l \in Launches : ReqTimeout(l)
  \/ \E l \in Launches : ReqDestroyedError(l)
  \/ \E p \in Launches : ProcOutput(p)
  \/ \E p \in Launches : ProcError(p)
  \/ \E p \in Launches, e \in ExitStates : ProcClose(p, e)
  \/ ErrorTimerFires
  \/ \E w \in Launches : WindowClosed(w)
  \/ \E w \in Launches : KillTimerFires(w)
  \/ WindowAllClosed
  \/ UserQuit
  \/ BeforeQuit
  \/ AppExit

\* The application on macOS, where 'activate' re-creates the window.
NextDarwin == Next \/ Activate

Spec == Init /\ [][Next]_vars

SpecDarwin == Init /\ [][NextDarwin]_vars

\* Some event of an outstanding request of launch l is delivered.
Completion(l) ==
  \/ \E s \in StatusCodes : Response(l, s)
  \/ ReqError(l)
  \/ ReqTimeout(l)
  \/ ReqDestroyedError(l)

\* The scheduling the runtime guarantees: app.whenReady resolves, a scheduled
\* interval keeps firing, every request issued ends in a response, an error
\* or a timeout, and a set timer fires.  User and subprocess events are free.
FairSpec ==
  /\ Spec
  /\ WF_vars(AppReady)
  /\ \A l \in Launches : WF_vars(Tick(l)) /\ WF_vars(Completion(l))
  /\ WF_vars(ErrorTimerFires)

----------------------------------------------------------------------------
(* Re-creating the window on macOS *)

\* An interval tick during the first seconds of a launch.
EarlyTick(l) ==
  /\ attempts[l] < MaxEarlyTicks
  /\ Tick(l)

\* NextDarwin with every probe followed for its first MaxEarlyTicks ticks
\* only: the behaviours of SpecRelaunch are the behaviours of SpecDarwin in
\* which the user closes and re-creates the window, and the subprocess ends,
\* during the first seconds of a launch.
NextRelaunch ==
  \/ AppReady
  \/ Activate
  \/ \E l \in Launches : EarlyTick(l)
  \/ \E l \in Launches, s \in StatusCodes : Response(l, s)
  \/ \E l \in Launches : ReqError(l)
  \/ \E l \in Launches : ReqTimeout(l)
  \/ \E l \in Launches : ReqDestroyedError(l)
  \/ \E p \in Launches : ProcOutput(p)
  \/ \E p \in Launches : ProcError(p)
  \/ \E p \in Launches, e \in ExitStates : ProcClose(p, e)
  \/ ErrorTimerFires
  \/ \E w \in Launches : WindowClosed(w)
  \/ \E w \in Launches : KillTimerFires(w)
  \/ WindowAllClosed
  \/ UserQuit
  \/ BeforeQuit
  \/ AppExit

\* main.js:439: process.platform === 'darwin'.
InitDarwin == Init /\ platform = "darwin"

SpecRelaunch == InitDarwin /\ [][NextRelaunch]_vars

----------------------------------------------------------------------------
(* startStreamlit alone *)

SetupInit ==
  /\ AppInit
  /\ host \in Hosts \cup DebugHosts
  /\ run = NoRun

\* main.js:289-423
StartStreamlitMain ==
  /\ host.variant = "main.js"
  /\ run = NoRun
  /\ run' = MainStart(host)
  /\ UNCHANGED <<host, appVars, mainWindow, streamlitProcess, nLaunch, setup,
                 probeVars, procVars, killTimer, errorTimers, uiVars>>

\* part_000:299-408
StartStreamlitOld ==
  /\ host.variant = "part_000"
  /\ run = NoRun
  /\ run' = OldStart(host)
  /\ UNCHANGED <<host, appVars, mainWindow, streamlitProcess, nLaunch, setup,
                 probeVars, procVars, killTimer, errorTimers, uiVars>>

\* main.js:525-564
DebugStreamlitPaths ==
  /\ host.variant = "debug.js"
  /\ run = NoRun
  /\ run' = DebugStart(host)
  /\ UNCHANGED <<host, appVars, mainWindow, streamlitProcess, nLaunch, setup,
                 probeVars, procVars, killTimer, errorTimers, uiVars>>

SetupNext == StartStreamlitMain \/ StartStreamlitOld \/ DebugStreamlitPaths

SetupSpec == SetupInit /\ [][SetupNext]_vars

----------------------------------------------------------------------------
(* setupDataFiles, setup.js:95-133 and main.js:967-1006 *)

\* Calls of setupDataFiles followed on one data directory.
MaxRuns == 3

\* setup.js:107-124: csvFiles, name and header row.
Names == {"updated-database-results.csv", "livsmedelsdatabas.csv",
          "recipie_databas.csv", "meal_databas.csv"}

Headers ==
  [f \in Names |->
     CASE f = "updated-database-results.csv" ->
            "date,time,label,activity,distance,energy,pro,carb,fat,note,energy_acc,protein_acc,duration,pace,steps"
       [] f = "livsmedelsdatabas.csv" -> "livsmedel,calorie,protein,carb,fat"
       [] f = "recipie_databas.csv" -> "name,livsmedel,amount,code,favorite"
       [] f = "meal_databas.csv" -> "name,livsmedel,amount,code,favorite"]

\* A file that does not exist.
NoFile == [exists |-> FALSE, content |-> ""]

\* What a data file can hold before setup runs: nothing, an empty file, its
\* header, its header and a row, or unrelated text.
Contents(f) ==
  {NoFile} \cup
  [exists: {TRUE},
   content: {"", Headers[f] \o "\n", Headers[f] \o "\n" \o "row\n", "other"}]

\* The data directory before setup: absent (then no file exists) or present.
SeedHosts ==
  [variant: {"setup.js"}, dataDir: {FALSE}, files: [Names -> {NoFile}]]
  \cup [variant: {"setup.js"}, dataDir: {TRUE},
        files: {fs \in [Names -> UNION {Contents(f) : f \in Names}] :
                  \A f \in Names : fs[f] \in Contents(f)}]

\* A write without the trailing newline.
HeaderOnly(f) == Headers[f]

\* setup.js:129: file.headers + '\n'
WriteContent(f) == Headers[f] \o "\n"

\* A seeding step without the existsSync test.
OverwriteFile(file, f) == [exists |-> TRUE, content |-> WriteContent(f)]

\* setup.js:126-133: the body of csvFiles.forEach.
SeedFile(file, f) ==
  IF ~file.exists THEN [exists |-> TRUE, content |-> WriteContent(f)]
  ELSE file

SeedInit ==
  /\ AppInit
  /\ host \in SeedHosts
  /\ run = [pc |-> "seed", dir |-> host.dataDir, files |-> host.files,
            runs |-> 0]

\* setup.js:95-133: one call; mkdirSync (recursive) creates the directory.
setupDataFiles ==
  /\ run.pc = "seed"
  /\ run.runs < MaxRuns
  /\ run' = [pc |-> "seed",
             dir |-> TRUE,                                  \* setup.js:101-104
             files |-> [f \in Names |-> SeedFile(run.files[f], f)],
             runs |-> run.runs + 1]
  /\ UNCHANGED <<host, appVars, mainWindow, streamlitProcess, nLaunch, setup,
                 probeVars, procVars, killTimer, errorTimers, uiVars>>

SeedNext == setupDataFiles

SeedSpec == SeedInit /\ [][SeedNext]_vars

----------------------------------------------------------------------------
(* createEnvFiles and the self-tests of the setup script:                  *)
(* setup.js:8-35, 194-218 and main.js:835-864, 1053-1140                   *)

\* The template text, by version; main.js:842-848 writes the lines flush
\* left, setup.js:14-20 writes them with the indentation of the source.
EnvTemplate(variant) ==
  IF variant = "main.js"
  THEN "# Supabase Configuration\nSUPABASE_URL=your_supabase_url_here\n"
  ELSE "# Supabase Configuration\n    SUPABASE_URL=your_supabase_url_here\n"

\* What .env.template or .env can hold before setup runs: nothing, an empty
\* file, the user's own settings, or either version's template.
EnvContents ==
  {NoFile} \cup
  [exists: {TRUE},
   content: {"", "SUPABASE_URL=https://mine\n",
             EnvTemplate("main.js"), EnvTemplate("setup.js")}]

ScriptHosts ==
  [variant: {"setup.js", "main.js"},
   template: EnvContents,     \* .env.template
   env: EnvContents,          \* .env
   testOK: BOOLEAN,           \* `python test_streamlit.py` exits with 0
   startOK: BOOLEAN]          \* the execSync of test_app.py does not throw

\* A write without the existsSync test.
AlwaysWrite(file, content) == [exists |-> TRUE, content |-> content]

\* setup.js:13, 27: `if (!fs.existsSync(p))` around the write or the copy.
WriteIfAbsent(file, content) ==
  IF file.exists THEN file ELSE [exists |-> TRUE, content |-> content]

\* setup.js:8-35: both files after one call.  copyFileSync copies whatever
\* .env.template holds by then.
EnvAfter(variant, template, env) ==
  LET t == WriteIfAbsent(template, EnvTemplate(variant))
  IN [template |-> t, env |-> WriteIfAbsent(env, t.content)]

ScriptInit ==
  /\ AppInit
  /\ host \in ScriptHosts
  /\ run = [pc |-> "script", template |-> host.template, env |-> host.env,
            envRuns |-> 0, testFile |-> FALSE, testApp |-> FALSE,
            tests |-> 0, startTests |-> 0, exited |-> FALSE]

\* setup.js:8-35, main.js:835-864
createEnvFiles ==
  /\ run.pc = "script"
  /\ ~run.exited
  /\ run.envRuns < MaxRuns
  /\ run' = [run EXCEPT
               !.template = EnvAfter(host.variant, run.template, run.env).template,
               !.env = EnvAfter(host.variant, run.template, run.env).env,
               !.envRuns = @ + 1]
  /\ UNCHANGED <<host, appVars, mainWindow, streamlitProcess, nLaunch, setup,
                 probeVars, procVars, killTimer, errorTimers, uiVars>>

\* setup.js:194-218, main.js:1053-1104: test_streamlit.py is written, run,
\* and unlinked after a successful run; a failed run goes to the catch block,
\* which calls process.exit(1).
testStreamlit ==
  /\ run.pc = "script"
  /\ ~run.exited
  /\ run.tests = 0
  /\ run' = [run EXCEPT !.tests = 1,
                        !.testFile = ~host.testOK,     \* setup.js:208-211
                        !.exited = ~host.testOK]       \* setup.js:216
  /\ UNCHANGED <<host, appVars, mainWindow, streamlitProcess, nLaunch, setup,
                 probeVars, procVars, killTimer, errorTimers, uiVars>>

\* main.js:1107-1140: test_app.py is written, run, and unlinked on both
\* paths (main.js:1129, 1134-1136).
testStreamlitStart ==
  /\ run.pc = "script"
  /\ host.variant = "main.js"
  /\ ~run.exited
  /\ run.startTests = 0
  /\ run' = [run EXCEPT !.startTests = 1, !.testApp = FALSE]
  /\ UNCHANGED <<host, appVars, mainWindow, streamlitProcess, nLaunch, setup,
                 probeVars, procVars, killTimer, errorTimers, uiVars>>

ScriptNext == createEnvFiles \/ testStreamlit \/ testStreamlitStart

ScriptSpec == ScriptInit /\ [][ScriptNext]_vars

----------------------------------------------------------------------------
(* Derived quantities *)

\* Attempts of launch l that have completed without a 200 response: every
\* issued request that is neither pending nor succeeded (a request destroyed
\* by its timeout has failed).
FailedAttempts(l) == attempts[l] - pending[l] - succeeded[l]

\* A step of the 'error' or 'timeout' handler of launch l that calls
\* showErrorScreen (main.js:127-131, 138-141).
ProbeSignalsFailed(l) ==
  /\ attempts[l] >= maxAttempts
  /\ ReqError(l) \/ ReqTimeout(l) \/ ReqDestroyedError(l)

----------------------------------------------------------------------------
(* Claims *)

\* C1: once a probe attempt of a launch has received an HTTP 200 response,
\* no further probe request is issued for that launch: the attempts counter
\* no longer moves and no request is added to the pending ones.
C1_NoRequestAfter200 ==
  [][\A l \in Launches :
       succeeded[l] > 0 =>
         /\ attempts'[l] = attempts[l]
         /\ pending'[l] <= pending[l]]_vars

\* C1 witness: a 200 response was received well before exhaustion while
\* another request of the same launch is still outstanding.
C1_Witness ==
  \E l \in Launches :
    /\ succeeded[l] = 1
    /\ pending[l] >= 1
    /\ attempts[l] < maxAttempts
    /\ ~interval[l]

\* C2: in a launch whose subprocess was spawned and keeps running, whose
\* window stays open and whose probe succeeded on an attempt k <= maxAttempts,
\* the UI has received exactly one ready signal and no error signal.
C2_OneReadyNoError ==
  \A l \in Launches :
    ( /\ setup[l] = "spawned"
      /\ pstate[l] = "running"
      /\ mainWindow = l
      /\ app = "running"
      /\ succeeded[l] >= 1
      /\ attempts[l] <= maxAttempts )
    => (ready[l] = 1 /\ errors[l] = 0)

\* C3: the probe signals Failed (showErrorScreen from its error or timeout
\* handler) only at a moment when exactly maxAttempts attempts have completed
\* unsuccessfully.
C3_FailedAtExactlyMaxAttempts ==
  [][\A l \in Launches :
       ( /\ pstate[l] = "running"
         /\ mainWindow = l
         /\ ProbeSignalsFailed(l) )
       => FailedAttempts(l)' = maxAttempts]_vars

\* C4: a non-200 response is handled like a connection error or a timeout:
\* when it ends the attempt that exhausts maxAttempts, the probe stops polling
\* and signals Failed to the open window.
C4_Non200HandledAsFailure ==
  [][\A l \in Launches :
       ( /\ attempts[l] >= maxAttempts
         /\ interval[l]
         /\ pstate[l] = "running"
         /\ mainWindow = l
         /\ Response(l, 503) )
       => ( /\ ~interval'[l]
            /\ errors'[l] = errors[l] + 1 )]_vars

\* C5: under fair scheduling of ticks and responses every launch eventually
\* resolves, whatever the server answers: its window is given a ready or an
\* error signal, unless the window is closed or the application quits first.
\* (That a resolved launch is not resolved again is the statement of C6.)
C5_EventuallyResolves ==
  \A l \in Launches :
    [](mainWindow = l =>
         <>(ready[l] + errors[l] >= 1 \/ mainWindow # l \/ app = "quit"))

\* C6: once a window has been given a ready signal or an error signal, no
\* later step gives it the other signal or a further one.
C6_ResolutionIsTerminal ==
  [][\A w \in Launches :
       ready[w] + errors[w] >= 1 =>
         (ready'[w] = ready[w] /\ errors'[w] = errors[w])]_vars

\* C7: once the subprocess has exited with a non-zero code, the probe of its
\* launch is cancelled: no further request is issued, and the window is given
\* at most one error signal.
C7_CrashCancelsProbe ==
  /\ [][\A l \in Launches :
          pstate[l] = "exit1" =>
            (attempts'[l] = attempts[l] /\ pending'[l] <= pending[l])]_vars
  /\ [](\A l \in Launches : pstate[l] = "exit1" => errors[l] <= 1)

\* C8: however often close/stop is signalled, a subprocess is sent SIGTERM at
\* most once and at most one escalation timer is started.
C8_OneTerminationSequence ==
  /\ \A p \in Launches : sigterm[p] <= 1
  /\ Cardinality({w \in Launches : killTimer[w] # "unset"}) <= 1

\* C9: when the grace timer of the 'closed' handler has fired and the
\* subprocess that was sent SIGTERM is still running, it has been sent SIGKILL.
C9_EscalatesToSigkill ==
  \A w \in Launches :
    ( /\ killTimer[w] = "fired"
      /\ streamlitProcess # 0
      /\ pstate[streamlitProcess] = "running"
      /\ sigterm[streamlitProcess] >= 1 )
    => sigkill[streamlitProcess] >= 1

\* C10: stopping is a no-op when there is nothing to stop: no handler raises
\* an error, and a subprocess that was never started or has already exited
\* is sent no signal.
C10_StopWithoutProcessIsNoOp ==
  /\ []("stop" \notin thrown)
  /\ [][\A p \in Launches :
          pstate[p] # "running" =>
            /\ sigterm'[p] = sigterm[p]
            /\ sigkill'[p] = sigkill[p]
            /\ killed'[p] = killed[p]]_vars

\* C10 witness: the 'closed' and 'window-all-closed' handlers and the grace
\* timer have all run after the subprocess had exited, and sent it nothing.
C10_Witness ==
  \E p \in Launches :
    /\ streamlitProcess = p
    /\ pstate[p] = "exit0"
    /\ mainWindow = 0
    /\ ~wacPending
    /\ killTimer[p] = "fired"
    /\ sigterm[p] = 0
    /\ sigkill[p] = 0
    /\ thrown = {}

----------------------------------------------------------------------------
(* Subprocess lifecycle across window re-creation *)

\* Processes that were spawned and have not ended.
Alive == {p \in Launches : pstate[p] = "running"}

\* C11: at every moment at most one supervised subprocess is alive, whatever
\* the sequence of window close, 'activate' and subprocess exit events.
C11_AtMostOneAlive == Cardinality(Alive) <= 1

----------------------------------------------------------------------------
(* Setup *)

\* C12: the subprocess is spawned only when the entry file lumina_app.py was
\* found to exist and the version probe of some candidate interpreter
\* succeeded; otherwise spawn is never called.
C12_SpawnNeedsFileAndInterpreter ==
  run.pc = "done" =>
    (run.spawns > 0 => EntryFound(host) /\ InterpreterFound(host))

\* A packaged part_000 call that spawned from its second or third candidate.
C12_Witness ==
  /\ run.pc = "done"
  /\ run.spawns = 1
  /\ host.variant = "part_000"
  /\ ~host.isDev
  /\ host.fs["resources"] # "file"

\* C13: when an interpreter is found but the streamlit module check under it
\* fails, the launch fails without spawning; a subprocess is spawned only
\* after the module check succeeded.
C13_SpawnNeedsModuleCheck ==
  run.pc = "done" =>
    (run.spawns > 0 => run.moduleChecks > 0 /\ host.module)

\* C14: every setup failure (entry file not found, no working interpreter,
\* module unavailable, spawn error) leads to the error view and to no ready
\* signal for that launch.
C14_SetupFailureNeverReady ==
  \A l \in Launches : setup[l] \notin {"none", "spawned"} => ready[l] = 0

\* C15: a subprocess that exits without a preceding stop, with a non-zero
\* code or with a null code, is treated as a crash: the error view is
\* scheduled.
C15_UnrequestedExitIsCrash ==
  [][\A p \in Launches :
       (/\ sigterm[p] = 0
        /\ sigkill[p] = 0
        /\ ProcClose(p, "exit1") \/ ProcClose(p, "exitnull"))
       => errorTimers' = errorTimers + 1]_vars

\* C16: an exit that follows an explicit stop (SIGTERM sent by the close or
\* quit handlers) is never treated as a crash, whatever its exit code: it
\* schedules no error view.
C16_ExitAfterStopIsNoCrash ==
  [][\A p \in Launches :
       (sigterm[p] > 0 /\ \E e \in ExitStates : ProcClose(p, e))
       => errorTimers' = errorTimers]_vars

\* C17: showErrorScreen is invoked at most once per launch.
C17_ErrorViewAtMostOnce == \A w \in Launches : errors[w] <= 1

\* C18: a subprocess receives SIGKILL only after it received SIGTERM itself
\* (and the grace timeout elapsed), whatever the sequence of close, activate
\* and spawn events.
C18_SigkillOnlyAfterOwnSigterm ==
  \A p \in Launches : sigkill[p] > 0 => sigterm[p] > 0

----------------------------------------------------------------------------
(* Path resolution *)

\* C19: for an ordered list of candidate entry files with at least one
\* existing entry, path resolution returns the first existing entry in list
\* order and performs no existence check on any entry after it.
C19_FirstExistingNoLaterCheck ==
  (run.pc = "done" /\ FirstExisting(host) > 0) =>
    /\ run.path = Candidates(host)[FirstExisting(host)]
    /\ \A k \in DOMAIN run.checked, j \in DOMAIN Candidates(host) :
         j > FirstExisting(host) => run.checked[k][1] # Candidates(host)[j]

\* Three candidates, the first missing, the second and third present.
C19_Witness ==
  /\ run.pc = "done"
  /\ host.variant = "part_000"
  /\ ~host.isDev
  /\ host.fs["resources"] = "none"
  /\ host.fs["appPath"] = "file"
  /\ host.fs["dirname"] = "file"
  /\ run.path = "appPath"

\* C20: when no candidate exists, path resolution fails with a not-found
\* error that lists every candidate tried, in order, and neither interpreter
\* detection nor spawn follows.
C20_NotFoundListsAllAndStops ==
  (run.pc = "done" /\ FirstExisting(host) = 0) =>
    /\ run.result \in {"no_dir", "no_file"}
    /\ run.tried = Candidates(host)
    /\ run.probed = <<>>
    /\ run.moduleChecks = 0
    /\ run.spawns = 0

\* Three candidates, none present, on a host with a working interpreter.
C20_Witness ==
  /\ run.pc = "done"
  /\ host.variant = "part_000"
  /\ ~host.isDev
  /\ FirstExisting(host) = 0
  /\ "python3" \in host.ok
  /\ Len(run.tried) = 3

----------------------------------------------------------------------------
(* Interpreter detection *)

\* Positions of the candidate commands whose version probe succeeds.
Working(h) == {i \in DOMAIN CommandsOf(h) : CommandsOf(h)[i] \in h.ok}

\* C21: interpreter detection returns the first command, in candidate-list
\* order, whose version probe succeeds; a candidate whose probe fails is
\* skipped without aborting detection, and no candidate after the first
\* success is probed.
C21_FirstWorkingNoLaterProbe ==
  (run.pc = "done" /\ run.result \notin {"no_dir", "no_file"}) =>
    IF Working(host) = {}
    THEN run.pythonCmd = "null" /\ run.probed = CommandsOf(host)
    ELSE LET i == CHOOSE i \in Working(host) : \A j \in Working(host) : i <= j
         IN /\ run.pythonCmd = CommandsOf(host)[i]
            /\ run.probed = SubSeq(CommandsOf(host), 1, i)

\* Packaged main.js: the first two commands fail, the third and the fifth
\* work; the third is returned after three probes.
C21_Witness ==
  /\ run.pc = "done"
  /\ host.variant = "main.js"
  /\ ~host.isDev
  /\ host.ok = {"python", "py"}
  /\ run.pythonCmd = "python"
  /\ Len(run.probed) = 3

----------------------------------------------------------------------------
(* Unset roots and the data directory *)

\* C22: a candidate root that is an empty string or null/undefined (an unset
\* process.resourcesPath) is skipped: no path built from it is passed to a
\* filesystem call.
C22_EmptyRootNeverChecked ==
  run.pc = "listed" =>
    \A k \in DOMAIN run.checked : run.checked[k][1] # ""

\* C23: whenever path resolution succeeds and the launch proceeds to spawn,
\* the data directory next to the entry file exists at the time of spawn: it
\* is created if it was absent (stated for hosts on which it can be created).
C23_DataDirExistsAtSpawn ==
  (run.pc = "done" /\ host.mkdirOK) => (run.spawns > 0 => run.dataDir)

----------------------------------------------------------------------------
(* Data-file seeding *)

\* C24: data-file seeding is idempotent: a file that exists before
\* setupDataFiles runs has the same content afterwards, after any number of
\* runs.
C24_ExistingFilesUntouched ==
  run.pc = "seed" =>
    \A f \in Names : host.files[f].exists => run.files[f] = host.files[f]

\* Two runs over a directory with a user-edited file and a missing file.
C24_Witness ==
  /\ run.pc = "seed"
  /\ run.runs >= 2
  /\ host.files["livsmedelsdatabas.csv"].content = "other"
  /\ ~host.files["meal_databas.csv"].exists
  /\ run.files["meal_databas.csv"].exists

\* C25: starting from an empty or absent data directory, after
\* setupDataFiles each of the four files exists and holds exactly its header
\* row followed by one newline; the recipe and the meal file share one header.
C25_EmptyDirSeededWithHeaders ==
  (/\ run.pc = "seed"
   /\ run.runs >= 1
   /\ \A f \in Names : ~host.files[f].exists) =>
    /\ run.dir
    /\ \A f \in Names :
         run.files[f] = [exists |-> TRUE, content |-> Headers[f] \o "\n"]
    /\ run.files["recipie_databas.csv"].content
         = run.files["meal_databas.csv"].content

\* One run over an absent data directory.
C25_Witness ==
  /\ run.pc = "seed"
  /\ ~host.dataDir
  /\ run.runs = 1
  /\ run.files["updated-database-results.csv"].exists

----------------------------------------------------------------------------
(* Probe timing, retries, subprocess output *)

\* C26: the per-attempt timeout of each readiness GET is strictly shorter
\* than the polling interval, so that at most one probe request of a launch
\* is outstanding.
C26_TimeoutShorterThanInterval ==
  \A l \in Launches :
    interval[l] => (requestTimeout < pollInterval /\ pending[l] <= 1)

\* C27: the first probe attempt is issued immediately after the subprocess
\* is spawned: the step that spawns it issues the first request.
C27_FirstProbeAtSpawn ==
  [][\A l \in Launches :
       (nLaunch = l - 1 /\ nLaunch' = l /\ setup'[l] = "spawned")
       => attempts'[l] >= 1]_vars

\* C28: no failure of a launch is retried automatically: once startStreamlit
\* has run for a launch its outcome never changes, and no handler spawns the
\* subprocess of that launch again.
C28_NoAutomaticRetry ==
  [][\A l \in Launches :
       setup[l] # "none" =>
         /\ setup'[l] = setup[l]
         /\ pstate'[l] \in {"running", "spawnerr"} => pstate'[l] = pstate[l]]_vars

\* The subprocess crashed and the error view was shown.
C28_Witness ==
  /\ setup[1] = "spawned"
  /\ pstate[1] = "exit1"
  /\ errors[1] >= 1

\* C29: data on the subprocess's standard output or standard error changes
\* no supervisor state: readiness, attempt counter, process handle and window
\* are unchanged by a 'data' event.
C29_OutputChangesNothing ==
  [][\A p \in Launches :
       ProcOutput(p) =>
         UNCHANGED <<ready, errors, loading, attempts, interval,
                     streamlitProcess, pstate, mainWindow>>]_vars

\* The subprocess is running, and can write, while a probe request is out.
C29_Witness ==
  /\ pstate[1] = "running"
  /\ pending[1] >= 1
  /\ mainWindow = 1

\* C30: the 5000 ms force-kill timer started by a window close only signals
\* the subprocess that the close sent SIGTERM to; a subprocess spawned by a
\* later 'activate' is not sent SIGKILL by the old timer.
C30_KillTimerHitsStoppedProcess ==
  [][\A w \in Launches, p \in Launches :
       (KillTimerFires(w) /\ sigkill'[p] # sigkill[p])
       => (p <= w /\ sigterm[p] > 0)]_vars

----------------------------------------------------------------------------
(* The closed window, stale probes, the attempt budget *)

\* C31: no window operation (loadURL or show, through the ready path or
\* showErrorScreen) is invoked while mainWindow is null.
C31_NoUseOfClosedWindow == "window" \notin thrown

\* Launches whose polling interval is still scheduled.
Polling == {l \in Launches : interval[l]}

\* C32: at most one readiness polling loop is active at any time: when
\* createWindow runs again, the interval of the earlier window is no longer
\* issuing requests.
C32_AtMostOnePollingLoop == Cardinality(Polling) <= 1

\* C33: a ready signal is given only while a subprocess spawned by this
\* launch is running: a 200 response is acted on only for a launch whose
\* subprocess was spawned and has not exited.
C33_ReadyOnlyWhileRunning ==
  [][\A l \in Launches :
       (Response(l, 200) /\ ready' # ready) => pstate[l] = "running"]_vars

\* C34: in every reachable state the number of probe requests issued for one
\* launch is at most maxAttempts.
C34_AttemptsWithinBudget == \A l \in Launches : attempts[l] <= maxAttempts

\* C35: for each window creation the loading view is shown exactly once, and
\* before any ready or error signal of that launch.
C35_LoadingOnceAndFirst ==
  [][\A l \in Launches :
       /\ (l <= nLaunch') => loading'[l] = 1
       /\ (l > nLaunch') => (loading'[l] = 0 /\ ready'[l] = 0 /\ errors'[l] = 0)
       /\ loading'[l] # loading[l] => (ready'[l] = 0 /\ errors'[l] = 0)]_vars

\* A launch whose startStreamlit failed synchronously and whose error view
\* has been shown.
C35_Witness ==
  /\ setup[1] = "no_python"
  /\ loading[1] = 1
  /\ errors[1] >= 1

----------------------------------------------------------------------------
(* The setup script *)

\* C36: createEnvFiles never overwrites an existing .env or .env.template:
\* each is written only when absent, after createEnvFiles both exist, and a
\* second run leaves the files as the first run left them.
C36_EnvFilesWrittenOnlyWhenAbsent ==
  run.pc = "script" =>
    /\ host.template.exists => run.template = host.template
    /\ host.env.exists => run.env = host.env
    /\ run.envRuns >= 1 =>
         /\ run.template.exists
         /\ run.env.exists
         /\ EnvAfter(host.variant, run.template, run.env)
              = [template |-> run.template, env |-> run.env]

\* Two runs on a project with the user's own .env and no template.
C36_Witness ==
  /\ run.pc = "script"
  /\ run.envRuns = 2
  /\ ~host.template.exists
  /\ host.env.content = "SUPABASE_URL=https://mine\n"
  /\ run.template.exists

\* C37: the temporary scripts written by setup's self-tests (test_streamlit.py
\* by testStreamlit, test_app.py by testStreamlitStart) do not exist after
\* the test finishes, whether the test command succeeded or failed.
C37_TestScriptsRemoved ==
  run.pc = "script" =>
    /\ run.tests >= 1 => ~run.testFile
    /\ run.startTests >= 1 => ~run.testApp

====
